---- MODULE Spec2Model ----
(***************************************************************************)
(* rssss backend: the bounded redirect-following fetch of main.rs, the     *)
(* three-dialect streaming feed parser of rss.rs and the error values of   *)
(* error.rs.                                                               *)
(*                                                                         *)
(* Strings are sequences of runs [c, n]: the character c repeated n times, *)
(* no run empty and no two neighbouring runs of the same character, so     *)
(* that equal strings are equal values.  A character is named by a TLA+    *)
(* string; Width gives the number of bytes of its UTF-8 encoding.          *)
(***************************************************************************)
EXTENDS Integers, Sequences, FiniteSets, TLC

\* ------------------------------------------------------------ strings

\* A two-byte and a three-byte character, and the mark left where a byte
\* slice ends inside a character (Rust panics there).
Char2 == "U+00E9"
Char3 == "U+3042"
Broken == "<split>"

\* char::len_utf8
Width(c) == CASE c = Char2 -> 2 [] c = Char3 -> 3 [] OTHER -> 1

\* char::is_whitespace, for the characters used here
IsWhitespace(c) == c \in {" ", "\n"}

Rep(c, n) == IF n = 0 THEN << >> ELSE << [c |-> c, n |-> n] >>

\* A word that is only compared, copied or printed (a name, an attribute
\* value, the fixed part of a format! template), written as one character.
Word(w) == Rep(w, 1)

\* str::chars().count()
RECURSIVE CharLen(_)
CharLen(s) == IF s = << >> THEN 0 ELSE Head(s).n + CharLen(Tail(s))

\* str::len(): the length in bytes
RECURSIVE ByteLen(_)
ByteLen(s) == IF s = << >> THEN 0 ELSE Head(s).n * Width(Head(s).c) + ByteLen(Tail(s))

\* String::push_str
Concat(s, t) ==
  IF s = << >> THEN t
  ELSE IF t = << >> THEN s
  ELSE IF s[Len(s)].c = t[1].c
       THEN SubSeq(s, 1, Len(s) - 1)
            \o << [c |-> t[1].c, n |-> s[Len(s)].n + t[1].n] >>
            \o Tail(t)
       ELSE s \o t

\* The literal s written by its characters, one run each, then normalised.
RECURSIVE Lit(_)
Lit(cs) == IF cs = << >> THEN << >> ELSE Concat(Rep(Head(cs), 1), Lit(Tail(cs)))

\* str::chars().take(k), as a string
RECURSIVE TakeChars(_, _)
TakeChars(s, k) ==
  IF s = << >> \/ k = 0 THEN << >>
  ELSE IF Head(s).n >= k THEN Rep(Head(s).c, k)
  ELSE << Head(s) >> \o TakeChars(Tail(s), k - Head(s).n)

\* &s[..end]: the first end bytes of s.  When byte end falls inside a
\* character the slice is not a string; the whole characters before it are
\* kept and followed by Broken.
RECURSIVE ByteSlice(_, _)
ByteSlice(s, end) ==
  IF s = << >> \/ end = 0 THEN << >>
  ELSE LET w == Width(Head(s).c)
           bytes == Head(s).n * w
       IN IF bytes <= end
          THEN Concat(<< Head(s) >>, ByteSlice(Tail(s), end - bytes))
          ELSE Concat(Rep(Head(s).c, end \div w),
                      IF end % w = 0 THEN << >> ELSE Rep(Broken, 1))

\* str::trim_start, str::trim_end
RECURSIVE TrimStart(_)
TrimStart(s) ==
  IF s # << >> /\ IsWhitespace(Head(s).c) THEN TrimStart(Tail(s)) ELSE s

RECURSIVE TrimEnd(_)
TrimEnd(s) ==
  IF s # << >> /\ IsWhitespace(s[Len(s)].c)
  THEN TrimEnd(SubSeq(s, 1, Len(s) - 1)) ELSE s

\* The number of occurrences of character c in s.
RECURSIVE Count(_, _)
Count(s, c) ==
  IF s = << >> THEN 0
  ELSE (IF Head(s).c = c THEN Head(s).n ELSE 0) + Count(Tail(s), c)

\* s ends with at least n times the character c.
EndsWithRun(s, c, n) == s # << >> /\ s[Len(s)].c = c /\ s[Len(s)].n >= n

\* ------------------------------------------------------------ Rss

DESCRIPTION_LIMIT == 500

Marker == Rep(".", 3)

\* Rss::trim
Trim(s) == TrimEnd(TrimStart(s))

\* Html::parse_document(data).root_element().text(): the text nodes of the
\* markup in document order.  A tag runs from "<" to the next ">"; the text
\* between two tags is one node, and an empty stretch is no node.
RECURSIVE HtmlScan(_, _, _)
HtmlScan(s, cur, inTag) ==
  IF s = << >> THEN (IF cur = << >> THEN << >> ELSE << cur >>)
  ELSE LET r == Head(s) IN
    IF inTag
    THEN IF r.c = ">"
         THEN HtmlScan(Concat(Rep(">", r.n - 1), Tail(s)), << >>, FALSE)
         ELSE HtmlScan(Tail(s), << >>, TRUE)
    ELSE IF r.c = "<"
         THEN (IF cur = << >> THEN << >> ELSE << cur >>)
              \o HtmlScan(Concat(Rep("<", r.n - 1), Tail(s)), << >>, TRUE)
         ELSE HtmlScan(Tail(s), Concat(cur, << r >>), FALSE)

HtmlTexts(data) == HtmlScan(data, << >>, FALSE)

\* A cut at byte limit, whatever character lies there
CutEndAtByte(text, limit) == limit

\* The slice of the truncating branch of pick_texts: the bytes of the first
\* limit characters of text.
CutEnd(text, limit) == ByteLen(TakeChars(text, limit))

\* The test that stops the loop of pick_texts.
PickBreak(texts) == ByteLen(texts) > DESCRIPTION_LIMIT

\* One iteration of the loop of pick_texts past its break test.
PickStep(texts, text) ==
  LET limit == DESCRIPTION_LIMIT - ByteLen(texts) IN
  IF ByteLen(text) > limit
  THEN Concat(Concat(texts, ByteSlice(text, CutEnd(text, limit))), Marker)
  ELSE Concat(texts, text)

RECURSIVE PickLoop(_, _)
PickLoop(texts, nodes) ==
  IF nodes = << >> \/ PickBreak(texts) THEN texts
  ELSE PickLoop(PickStep(texts, Head(nodes)), Tail(nodes))

\* Rss::pick_texts
PickTexts(data) == PickLoop(<< >>, HtmlTexts(data))

\* Rss::new
NoDate == [some |-> FALSE]
SomeDate(d) == [some |-> TRUE, value |-> d]

\* An entry whose link is trimmed like its title
RssNewTrimsLink(title, description, link, pub_date) ==
  [title |-> Trim(title),
   description |-> Trim(PickTexts(description)),
   link |-> Trim(link),
   pub_date |-> pub_date]

RssNew(title, description, link, pub_date) ==
  [title |-> Trim(title),
   description |-> Trim(PickTexts(description)),
   link |-> link,
   pub_date |-> pub_date]


\* ------------------------------------------------------------ names

RDF_NS == "http://purl.org/rss/1.0/"
RDF_SYNTAX_NS == "http://www.w3.org/1999/02/22-rdf-syntax-ns#"
ELEMENTS_NS == "http://purl.org/dc/elements/1.1/"
CONTENT_NS == "http://purl.org/rss/1.0/modules/content/"
ATOM_NS == "http://www.w3.org/2005/Atom"
MEDIA_NS == "http://search.yahoo.com/mrss/"

\* Option<&str>::None of OwnedName::namespace_ref
NoNs == "<none>"

\* An OwnedName.  A prefixed name always has a namespace, so the prefix adds
\* nothing to the tests the parsers make and is left out.
Name(ns, local) == [ns |-> ns, local |-> local]
Plain(local) == Name(NoNs, local)

\* An OwnedAttribute; its value is a string.
Attr(name, value) == [name |-> name, value |-> value]

\* OwnedName::to_string: "{namespace}local", or "local" without a namespace
NameToString(name) ==
  IF name.ns = NoNs THEN << name.local >> ELSE << "{", name.ns, "}", name.local >>

\* str::to_uppercase and str::eq_ignore_ascii_case, on the words used here
ToUppercase(w) ==
  CASE w = "utf-8" -> "UTF-8"
    [] w = "euc-jp" -> "EUC-JP"
    [] w = "rdf" -> "RDF"
    [] w = "Rdf" -> "RDF"
    [] OTHER -> w

EqIgnoreAsciiCase(a, b) == ToUppercase(a) = ToUppercase(b)

\* attrs.iter().find(|a| a.name.to_string() == key): the index of the first
\* attribute with that name, 0 when there is none
RECURSIVE FindFrom(_, _, _)
FindFrom(attrs, key, i) ==
  IF i > Len(attrs) THEN 0
  ELSE IF NameToString(attrs[i].name) = << key >> THEN i
  ELSE FindFrom(attrs, key, i + 1)

FindAttr(attrs, key) == FindFrom(attrs, key, 1)

\* ------------------------------------------------------------ errors

\* format!: the pieces of the template and its arguments, put together
RECURSIVE Format(_)
Format(pieces) ==
  IF pieces = << >> THEN << >> ELSE Concat(Head(pieces), Format(Tail(pieces)))

\* From<InvalidRssError>: an Error with the one message
ErrorOf(message) == [messages |-> << message >>]

\* xml::reader::Error::to_string: the position and the reader's text
XmlErrorToString(e) == Format(<< Word(e.pos), Word(" "), Word(e.msg) >>)

FromXMLReaderError(e) == ErrorOf(XmlErrorToString(e))

\* From<Vec<Error<T>>> for Error<T>
RECURSIVE Flatten(_)
Flatten(errs) ==
  IF errs = << >> THEN << >> ELSE Head(errs).messages \o Flatten(Tail(errs))

FromErrors(errs) == [messages |-> Flatten(errs)]

\* ------------------------------------------------------------ parsers

V2 == "RSS V2"
ATOM == "Atom"
V1 == "RSS V1"

\* RssV20::new, Atom::new, RssV10::new
NewParser(kind) ==
  [kind |-> kind,
   results |-> << >>,
   elements |-> << >>,
   title |-> << >>,
   link |-> << >>,
   description |-> << >>,
   pub_date |-> NoDate]

\* RssV20::is_item
V2IsItem(name) == NameToString(name) = << "item" >>

\* RssV10::is_item
V1IsItem(name) == EqIgnoreAsciiCase(name.local, "item") /\ name.ns = RDF_NS

\* Atom::is_entry, Atom::is_media_ns
AtomIsEntry(name) == name.ns = ATOM_NS /\ name.local = "entry"
AtomIsMediaNs(name, local) == name.ns = MEDIA_NS /\ name.local = local

\* Any media:description taken, whatever it lies in
AtomIsMediaDescriptionAnywhere(p) ==
  /\ Len(p.elements) >= 1
  /\ AtomIsMediaNs(p.elements[1].name, "description")

\* Atom::is_media_description
AtomIsMediaDescription(p) ==
  /\ Len(p.elements) >= 3
  /\ AtomIsEntry(p.elements[3].name)
  /\ AtomIsMediaNs(p.elements[2].name, "group")
  /\ AtomIsMediaNs(p.elements[1].name, "description")

RelSelf == Word("self")
RelAlternate == Word("alternate")

\* The closure of the find in Atom::parse_start_element: a rel attribute
\* whose value is neither "self" nor "alternate"
RECURSIVE HasOtherRel(_)
HasOtherRel(attrs) ==
  /\ attrs # << >>
  /\ \/ /\ NameToString(Head(attrs).name) = << "rel" >>
        /\ Head(attrs).value # RelSelf
        /\ Head(attrs).value # RelAlternate
     \/ HasOtherRel(Tail(attrs))

\* Only a link without any rel attribute is let through
AtomLinkTakenNoRel(name, attrs) ==
  name.ns = ATOM_NS /\ name.local = "link" /\ FindAttr(attrs, "rel") = 0

\* The test of Atom::parse_start_element that lets a link's href through
AtomLinkTaken(name, attrs) ==
  name.ns = ATOM_NS /\ name.local = "link" /\ ~HasOtherRel(attrs)

\* The element put at the back of the stack (push_back for push_front)
PushBack(p, name, attrs) ==
  [p EXCEPT !.elements = @ \o << [name |-> name, attrs |-> attrs] >>]

Push(p, name, attrs) ==
  [p EXCEPT !.elements = << [name |-> name, attrs |-> attrs] >> \o @]

\* RssParser::parse_start_element
AtomParseStartElement(p, name, attrs) ==
  LET h == FindAttr(attrs, "href")
      q == IF AtomLinkTaken(name, attrs) /\ h # 0
           THEN [p EXCEPT !.link = attrs[h].value] ELSE p
  IN Push(q, name, attrs)

ParseStartElement(p, name, attrs) ==
  IF p.kind = ATOM THEN AtomParseStartElement(p, name, attrs)
  ELSE Push(p, name, attrs)

\* Each text added to what the field holds
V2ParseContentAppends(p, data) ==
  IF Len(p.elements) < 2 THEN p
  ELSE IF ~V2IsItem(p.elements[2].name) THEN p
  ELSE LET name == p.elements[1].name IN
    CASE name.local = "title" -> [p EXCEPT !.title = Concat(@, data)]
      [] name.local = "link" -> [p EXCEPT !.link = Concat(@, data)]
      [] name.local = "description" -> [p EXCEPT !.description = Concat(@, data)]
      [] name.ns = CONTENT_NS /\ name.local = "encoded" ->
           IF p.description = << >> THEN [p EXCEPT !.description = data] ELSE p
      [] name.local = "pubDate" ->
           [p EXCEPT !.pub_date = IF p.pub_date = NoDate THEN SomeDate(data)
                                  ELSE SomeDate(Concat(p.pub_date.value, data))]
      [] OTHER -> p

\* content:encoded overwrites the description like every other field
V2ParseContentEncodedWins(p, data) ==
  IF Len(p.elements) < 2 THEN p
  ELSE IF ~V2IsItem(p.elements[2].name) THEN p
  ELSE LET name == p.elements[1].name IN
    CASE name.local = "title" -> [p EXCEPT !.title = data]
      [] name.local = "link" -> [p EXCEPT !.link = data]
      [] name.local = "description" -> [p EXCEPT !.description = data]
      [] name.ns = CONTENT_NS /\ name.local = "encoded" ->
           [p EXCEPT !.description = data]
      [] name.local = "pubDate" -> [p EXCEPT !.pub_date = SomeDate(data)]
      [] OTHER -> p

\* RssParser::parse_content
V2ParseContent(p, data) ==
  IF Len(p.elements) < 2 THEN p
  ELSE IF ~V2IsItem(p.elements[2].name) THEN p
  ELSE LET name == p.elements[1].name IN
    CASE name.local = "title" -> [p EXCEPT !.title = data]
      [] name.local = "link" -> [p EXCEPT !.link = data]
      [] name.local = "description" -> [p EXCEPT !.description = data]
      [] name.ns = CONTENT_NS /\ name.local = "encoded" ->
           IF p.description = << >> THEN [p EXCEPT !.description = data] ELSE p
      [] name.local = "pubDate" -> [p EXCEPT !.pub_date = SomeDate(data)]
      [] OTHER -> p

\* The text taken whatever the parent of its element is
V1ParseContentAnyParent(p, data) ==
  IF Len(p.elements) < 2 THEN p
  ELSE LET name == p.elements[1].name IN
    CASE name.ns = RDF_NS /\ name.local = "title" -> [p EXCEPT !.title = data]
      [] name.ns = RDF_NS /\ name.local = "link" -> [p EXCEPT !.link = data]
      [] name.ns = RDF_NS /\ name.local = "description" ->
           [p EXCEPT !.description = data]
      [] name.ns = CONTENT_NS /\ name.local = "encoded" ->
           IF p.description = << >> THEN [p EXCEPT !.description = data] ELSE p
      [] name.ns = ELEMENTS_NS /\ name.local = "date" ->
           [p EXCEPT !.pub_date = SomeDate(data)]
      [] OTHER -> p

V1ParseContent(p, data) ==
  IF Len(p.elements) < 2 THEN p
  ELSE IF ~V1IsItem(p.elements[2].name) THEN p
  ELSE LET name == p.elements[1].name IN
    CASE name.ns = RDF_NS /\ name.local = "title" -> [p EXCEPT !.title = data]
      [] name.ns = RDF_NS /\ name.local = "link" -> [p EXCEPT !.link = data]
      [] name.ns = RDF_NS /\ name.local = "description" ->
           [p EXCEPT !.description = data]
      [] name.ns = CONTENT_NS /\ name.local = "encoded" ->
           IF p.description = << >> THEN [p EXCEPT !.description = data] ELSE p
      [] name.ns = ELEMENTS_NS /\ name.local = "date" ->
           [p EXCEPT !.pub_date = SomeDate(data)]
      [] OTHER -> p

\* Every updated text taken, a later one replacing an earlier one and a
\* published one as well
AtomParseContentUpdatedWins(p, data) ==
  IF AtomIsMediaDescription(p) /\ p.description = << >>
  THEN [p EXCEPT !.description = data]
  ELSE IF Len(p.elements) < 2 THEN p
  ELSE IF ~AtomIsEntry(p.elements[2].name) THEN p
  ELSE LET name == p.elements[1].name IN
    CASE name.ns = ATOM_NS /\ name.local = "title" -> [p EXCEPT !.title = data]
      [] name.ns = ATOM_NS /\ name.local = "content" ->
           [p EXCEPT !.description = data]
      [] name.ns = ATOM_NS /\ name.local \in { "published", "updated" } ->
           [p EXCEPT !.pub_date = SomeDate(data)]
      [] OTHER -> p

AtomParseContent(p, data) ==
  IF AtomIsMediaDescription(p) /\ p.description = << >>
  THEN [p EXCEPT !.description = data]
  ELSE IF Len(p.elements) < 2 THEN p
  ELSE IF ~AtomIsEntry(p.elements[2].name) THEN p
  ELSE LET name == p.elements[1].name IN
    CASE name.ns = ATOM_NS /\ name.local = "title" -> [p EXCEPT !.title = data]
      [] name.ns = ATOM_NS /\ name.local = "content" ->
           [p EXCEPT !.description = data]
      [] name.ns = ATOM_NS /\ name.local = "published" ->
           [p EXCEPT !.pub_date = SomeDate(data)]
      [] name.ns = ATOM_NS /\ name.local = "updated" ->
           IF p.pub_date = NoDate THEN [p EXCEPT !.pub_date = SomeDate(data)] ELSE p
      [] OTHER -> p

ParseContent(p, data) ==
  CASE p.kind = V2 -> V2ParseContent(p, data)
    [] p.kind = ATOM -> AtomParseContent(p, data)
    [] p.kind = V1 -> V1ParseContent(p, data)

\* The item test of each parser's parse_end_element
IsItem(kind, name) ==
  CASE kind = V2 -> V2IsItem(name)
    [] kind = ATOM -> AtomIsEntry(name)
    [] kind = V1 -> V1IsItem(name)

\* VecDeque::pop_front: nothing happens on an empty deque
PopFront(elements) == IF elements = << >> THEN << >> ELSE Tail(elements)

\* The entry pushed and every field but the link cleared
EmitItemKeepsLink(p) ==
  [p EXCEPT !.results = Append(@, RssNew(p.title, p.description, p.link, p.pub_date)),
            !.title = << >>,
            !.description = << >>,
            !.pub_date = NoDate]

\* The entry pushed and the fields cleared when an item closes
EmitItem(p) ==
  [p EXCEPT !.results = Append(@, RssNew(p.title, p.description, p.link, p.pub_date)),
            !.title = << >>,
            !.link = << >>,
            !.description = << >>,
            !.pub_date = NoDate]

\* RssParser::parse_end_element
ParseEndElement(p, name) ==
  LET q == IF IsItem(p.kind, name) THEN EmitItem(p) ELSE p
  IN [q EXCEPT !.elements = PopFront(@)]

Version20 == Word("2.0")

Ok == [ok |-> TRUE]
Invalid(message) == [ok |-> FALSE, error |-> ErrorOf(message)]

\* RssParser::verify_rss, read when elements[0] is the root element
V2VerifyRss(p) ==
  LET name == p.elements[1].name
      attrs == p.elements[1].attrs
      v == FindAttr(attrs, "version")
  IN IF name.local # "rss"
     THEN Invalid(Format(<< Word("["), Word(V2), Word("] invalid root element: "),
                           Word(name.local) >>))
     ELSE IF v = 0
     THEN Invalid(Format(<< Word("["), Word(V2), Word("] undefined RSS version") >>))
     ELSE IF attrs[v].value = Version20 THEN Ok
     ELSE Invalid(Format(<< Word("["), Word(V2), Word("] unsupported RSS version: "),
                           attrs[v].value >>))

\* {:?} of Option<&str>
DebugNs(ns) ==
  IF ns = NoNs THEN Word("None")
  ELSE Format(<< Word("Some(\""), Word(ns), Word("\")") >>)

AtomVerifyRss(p) ==
  LET name == p.elements[1].name
  IN IF name.local # "feed"
     THEN Invalid(Format(<< Word("["), Word(ATOM), Word("] invalid root element: "),
                           Word(name.local) >>))
     ELSE IF name.ns # ATOM_NS
     THEN Invalid(Format(<< Word("["), Word(ATOM), Word("] invalid root namespace: "),
                           DebugNs(name.ns) >>))
     ELSE Ok

V1VerifyRss(p) ==
  LET name == p.elements[1].name
  IN IF ~EqIgnoreAsciiCase(name.local, "rdf")
     THEN Invalid(Format(<< Word("["), Word(V1), Word("] invalid root element: "),
                           Word(name.local) >>))
     ELSE IF name.ns # RDF_SYNTAX_NS
     THEN Invalid(Format(<< Word("["), Word(V1), Word("] invalid root namespace: "),
                           DebugNs(name.ns) >>))
     ELSE Ok

VerifyRss(p) ==
  CASE p.kind = V2 -> V2VerifyRss(p)
    [] p.kind = ATOM -> AtomVerifyRss(p)
    [] p.kind = V1 -> V1VerifyRss(p)


\* ------------------------------------------------------------ documents

\* The events xml::reader::EventReader delivers for a byte buffer.  A
\* document is the list of the events the reader delivers and, when the
\* bytes are not well-formed XML, the error it raises after them.
StartDocument(encoding) == [type |-> "StartDocument", encoding |-> encoding]
StartElement(name, attrs) == [type |-> "StartElement", name |-> name, attrs |-> attrs]
Characters(data) == [type |-> "Characters", data |-> data]
CData(data) == [type |-> "CData", data |-> data]
EndElement(name) == [type |-> "EndElement", name |-> name]
Whitespace == [type |-> "Whitespace"]
EndDocument == [type |-> "EndDocument"]

NoError == [raised |-> FALSE]
XmlError(pos, msg) == [raised |-> TRUE, pos |-> pos, msg |-> msg]

Element(name, attrs, inner) ==
  << StartElement(name, attrs) >> \o inner \o << EndElement(name) >>

TextElement(name, data) == Element(name, << >>, << Characters(data) >>)

WellFormed(encoding, root) ==
  [events |-> << StartDocument(encoding) >> \o root \o << EndDocument >>,
   error |-> NoError]

\* The bytes of d cut so that the reader fails after its first k events.
Truncated(d, k) ==
  [events |-> SubSeq(d.events, 1, k),
   error |-> XmlError("1:1", "Unexpected end of stream")]

RECURSIVE Flat(_)
Flat(seqs) == IF seqs = << >> THEN << >> ELSE Head(seqs) \o Flat(Tail(seqs))

\* ------------------------------------------------------------ state

VARIABLES
  pc,              \* where the request of get_feed stands
  url,             \* the url of the send_request in flight
  redirect_limit,  \* the budget retrieve_response gets with the next response
  fetches,         \* the number of send_request calls made
  upstream,        \* the responses received from upstream, in order
  response,        \* the HttpResponse of the request
  buf,             \* the body handed to parse_rss
  attempt,         \* the place in parse_rss: 1, 2, 3 for its three parse calls
  parser,          \* the parser of the running parse call
  pos,             \* the number of events the loop of parse has taken
  root,            \* the local root of parse
  errors,          \* the local errors of parse_rss
  result,          \* what parse_rss returned
  pick             \* a run of Rss::pick_texts, one loop iteration per step

fetchVars == << pc, url, redirect_limit, fetches, upstream >>
parseVars == << buf, attempt, parser, pos, root, errors, result >>
vars == << pc, url, redirect_limit, fetches, upstream, response,
           buf, attempt, parser, pos, root, errors, result, pick >>

\* A budget one short: retrieve_response(r, 2)
RedirectLimitTwo == 3 - 1

\* retrieve_response(r, 3) in get_feed
RedirectLimit == 3

\* StatusCode::is_success, StatusCode::is_redirection
IsSuccess(status) == 200 <= status /\ status < 300
IsRedirection(status) == 300 <= status /\ status < 400

\* Atom tried before RSS 2.0
DialectsAtomFirst == << ATOM, V2, V1 >>

\* The parsers parse_rss builds, in the order of its three parse calls
Dialects == << V2, ATOM, V1 >>

NoBody == [kind |-> "empty"]
Json(value) == [kind |-> "json", value |-> value]
NoResponse == [status |-> 0, body |-> NoBody, error |-> "pending"]
Http(status, body) == [status |-> status, body |-> body, error |-> "none"]
\* A future that fails with an actix Error: the server renders it, outside
\* this code.
Failed(error) == [status |-> 0, body |-> NoBody, error |-> error]

NoDoc == [events |-> << >>, error |-> NoError, shape |-> [flavor |-> "none"]]
NoResult == [kind |-> "none"]
NoPick == [pc |-> "idle", data |-> << >>, nodes |-> << >>, texts |-> << >>,
           description |-> << >>]

\* Url values: the url of the query and the one a Location header names
QueryUrl == "http://a.example/feed"
NextUrl == "http://b.example/feed"

\* A Location header: absent, present with bytes that to_str rejects, or a url
NoLocation == [present |-> FALSE, text |-> FALSE, url |-> ""]
BadLocation == [present |-> TRUE, text |-> FALSE, url |-> ""]
Location(u) == [present |-> TRUE, text |-> TRUE, url |-> u]

\* res.headers().get("location").and_then(|l| l.to_str().ok()) is Some
HasLocation(res) == res.location.present /\ res.location.text


\* ------------------------------------------------------------ feeds

\* The documents the model parses are written from outlines: a dialect, a
\* declared encoding, a root element and, per item, the kinds of its child
\* elements in document order.  The text of a child names its kind, its item
\* and its place, so that no two children carry the same text.

MaxItems == 2
MaxKids == 2

Digits == << "1", "2", "3", "4", "5", "6", "7", "8", "9" >>

Encodings == { "UTF-8", "utf-8", "EUC-JP" }

RootName(flavor) ==
  CASE flavor = "rss2" -> Plain("rss")
    [] flavor = "atom" -> Name(ATOM_NS, "feed")
    [] flavor = "rdf" -> Name(RDF_SYNTAX_NS, "RDF")

RootAttrs(flavor) ==
  IF flavor = "rss2" THEN << Attr(Plain("version"), Word("2.0")) >> ELSE << >>

ItemName(flavor) ==
  CASE flavor = "rss2" -> Plain("item")
    [] flavor = "atom" -> Name(ATOM_NS, "entry")
    [] flavor = "rdf" -> Name(RDF_NS, "item")

KidName(flavor, kind) ==
  CASE kind = "encoded" -> Name(CONTENT_NS, "encoded")
    [] flavor = "rss2" /\ kind = "date" -> Plain("pubDate")
    [] flavor = "rss2" -> Plain(kind)
    [] flavor = "rdf" /\ kind = "date" -> Name(ELEMENTS_NS, "date")
    [] flavor = "rdf" -> Name(RDF_NS, kind)
    [] flavor = "atom" -> Name(ATOM_NS, kind)

\* The text of child j of item i: titles, links and dates carry white space
\* at their ends, descriptions carry markup around their text.
KidData(kind, i, j) ==
  CASE kind = "title" -> Lit(<< " ", "t", Digits[i], Digits[j], " " >>)
    [] kind = "link" -> Lit(<< " ", "l", Digits[i], Digits[j], "\n" >>)
    [] kind = "date" -> Lit(<< "\n", "p", Digits[i], Digits[j], " " >>)
    [] kind = "description" ->
         Lit(<< "<", "p", ">", " ", "d", Digits[i], Digits[j], "<", "/", "p", ">" >>)
    [] kind = "encoded" ->
         Lit(<< "<", "b", ">", "e", Digits[i], Digits[j], "<", "/", "b", ">", " " >>)
    [] kind = "published" -> Lit(<< "p", Digits[i], Digits[j] >>)
    [] kind = "updated" -> Lit(<< "u", Digits[i], Digits[j] >>)
    [] kind = "content" -> Lit(<< "c", Digits[i], Digits[j] >>)
    [] kind \in { "media", "mediaBare" } -> Lit(<< "m", Digits[i], Digits[j] >>)
    [] OTHER -> Lit(<< "x", Digits[i], Digits[j] >>)

\* The href of the atom:link that is child j of entry i (entry 9: the feed)
Href(i, j) == Lit(<< "h", Digits[i], Digits[j] >>)

LinkKinds == { "linkNoRel", "linkSelf", "linkAlternate", "linkOther", "linkNoHref" }

LinkAttrs(kind, i, j) ==
  CASE kind = "linkNoRel" -> << Attr(Plain("href"), Href(i, j)) >>
    [] kind = "linkSelf" ->
         << Attr(Plain("rel"), Word("self")), Attr(Plain("href"), Href(i, j)) >>
    [] kind = "linkAlternate" ->
         << Attr(Plain("href"), Href(i, j)), Attr(Plain("rel"), Word("alternate")) >>
    [] kind = "linkOther" ->
         << Attr(Plain("rel"), Word("enclosure")), Attr(Plain("href"), Href(i, j)) >>
    [] kind = "linkNoHref" -> << Attr(Plain("rel"), Word("self")) >>

\* The events of child j of item i; content:encoded holds a CDATA section,
\* "media" is media:group with a media:description in it, "mediaBare" a
\* media:description without the group, and "deep" a link element inside a
\* title element, the text in the link. The "Chunks" kinds hold their text in
\* several pieces, character data and CDATA sections, and "descriptionSplit"
\* holds a child element between two pieces; the last piece is the text the
\* plain kind holds.
KidEvents(flavor, kind, i, j) ==
  CASE kind \in LinkKinds ->
         Element(Name(ATOM_NS, "link"), LinkAttrs(kind, i, j), << >>)
    [] kind = "encoded" ->
         Element(KidName(flavor, kind), << >>, << CData(KidData(kind, i, j)) >>)
    [] kind = "media" ->
         Element(Name(MEDIA_NS, "group"), << >>,
                 TextElement(Name(MEDIA_NS, "description"), KidData(kind, i, j)))
    [] kind = "mediaBare" ->
         TextElement(Name(MEDIA_NS, "description"), KidData(kind, i, j))
    [] kind = "deep" ->
         Element(KidName(flavor, "title"), << >>,
                 TextElement(KidName(flavor, "link"), KidData(kind, i, j)))
    [] kind = "titleChunks" ->
         Element(KidName(flavor, "title"), << >>,
                 << Characters(KidData("chunk", i, j)), CData(KidData("title", i, j)) >>)
    [] kind = "linkChunks" ->
         Element(KidName(flavor, "link"), << >>,
                 << CData(KidData("chunk", i, j)), Characters(KidData("link", i, j)) >>)
    [] kind = "dateChunks" ->
         Element(KidName(flavor, "date"), << >>,
                 << Characters(KidData("chunk", i, j)), CData(KidData("chunk", i, j)),
                    Characters(KidData("date", i, j)) >>)
    [] kind = "publishedChunks" ->
         Element(KidName(flavor, "published"), << >>,
                 << Characters(KidData("chunk", i, j)), CData(KidData("published", i, j)) >>)
    [] kind = "descriptionSplit" ->
         Element(KidName(flavor, "description"), << >>,
                 << Characters(KidData("chunk", i, j)) >>
                 \o TextElement(Plain("b"), KidData("chunk", i, j))
                 \o << Characters(KidData("description", i, j)) >>)
    [] OTHER -> TextElement(KidName(flavor, kind), KidData(kind, i, j))

ItemEvents(flavor, kinds, i) ==
  Element(ItemName(flavor), << >>,
          Flat([j \in 1..Len(kinds) |-> KidEvents(flavor, kinds[j], i, j)]))

ItemsEvents(flavor, items) ==
  Flat([i \in 1..Len(items) |-> << Whitespace >> \o ItemEvents(flavor, items[i], i)])

\* What stands in the feed beside its items: a title, and for Atom the
\* feed's own link.
ChannelEvents(flavor) ==
  CASE flavor = "rss2" -> TextElement(Plain("title"), Lit(<< "c", "h" >>))
    [] flavor = "rdf" ->
         Element(Name(RDF_NS, "channel"), << >>,
                 TextElement(Name(RDF_NS, "title"), Lit(<< "c", "h" >>)))
    [] flavor = "atom" ->
         TextElement(Name(ATOM_NS, "title"), Lit(<< "c", "h" >>))
         \o Element(Name(ATOM_NS, "link"), LinkAttrs("linkSelf", 9, 1), << >>)

\* The root: a text of its own, then the channel and the items
RootEvents(flavor, rootName, rootAttrs, items) ==
  Element(rootName, rootAttrs,
          << Characters(Lit(<< "r" >>)) >>
          \o IF flavor = "rss2"
             THEN Element(Plain("channel"), << >>,
                          ChannelEvents(flavor) \o ItemsEvents(flavor, items))
             ELSE ChannelEvents(flavor) \o ItemsEvents(flavor, items))

\* The document of an outline
Feed(flavor, encoding, rootName, rootAttrs, items) ==
  LET d == WellFormed(encoding, RootEvents(flavor, rootName, rootAttrs, items))
  IN [events |-> d.events, error |-> d.error,
      shape |-> [flavor |-> flavor, encoding |-> encoding, root |-> rootName,
                 attrs |-> rootAttrs, items |-> items]]

Standard(flavor, encoding, items) ==
  Feed(flavor, encoding, RootName(flavor), RootAttrs(flavor), items)

\* The children of an item that has every field once
FullItem(flavor) ==
  IF flavor = "atom" THEN << "title", "linkAlternate", "content", "published" >>
  ELSE << "title", "link", "description", "date" >>

Flavors == { "rss2", "atom", "rdf" }

\* Roots no parser, or not the expected parser, accepts
OddRoots ==
  { [flavor |-> "rss2", root |-> Plain("channel"), attrs |-> << >>],
    [flavor |-> "rss2", root |-> Plain("rss"), attrs |-> << >>],
    [flavor |-> "rss2", root |-> Plain("rss"),
     attrs |-> << Attr(Plain("version"), Word("0.91")) >>],
    [flavor |-> "atom", root |-> Plain("feed"), attrs |-> << >>],
    [flavor |-> "atom", root |-> Name(RDF_NS, "feed"), attrs |-> << >>],
    [flavor |-> "rdf", root |-> Name(RDF_SYNTAX_NS, "rdf"), attrs |-> << >>],
    [flavor |-> "rdf", root |-> Plain("RDF"), attrs |-> << >>],
    [flavor |-> "rdf", root |-> Name(RDF_NS, "RDF"), attrs |-> << >>] }

\* The bytes of d cut after k events, with the outline of d
Cut(d, k) ==
  [events |-> Truncated(d, k).events, error |-> Truncated(d, k).error,
   shape |-> d.shape]

\* The feeds upstream serves in the whole-request specification: one feed of
\* each dialect under each encoding, the odd roots, and each dialect's feed
\* broken at every place.
Corpus ==
  LET good(f, e) == Standard(f, e, << FullItem(f) >>) IN
  { good(f, e) : f \in Flavors, e \in Encodings }
  \cup { Feed(r.flavor, "UTF-8", r.root, r.attrs, << FullItem(r.flavor) >>) :
         r \in OddRoots }
  \cup UNION { { Cut(good(f, "UTF-8"), k) : k \in 0..(Len(good(f, "UTF-8").events) - 1) } :
               f \in Flavors }


\* ------------------------------------------------------------ the request

Init ==
  /\ pc = "request"
  /\ url = QueryUrl
  /\ redirect_limit = RedirectLimit
  /\ fetches = 0
  /\ upstream = << >>
  /\ response = NoResponse
  /\ buf = NoDoc
  /\ attempt = 0
  /\ parser = NewParser(V2)
  /\ pos = 0
  /\ root = TRUE
  /\ errors = << >>
  /\ result = NoResult
  /\ pick = NoPick

Statuses == { 200, 301, 302, 404, 500 }
Locations == { NoLocation, BadLocation, Location(NextUrl) }

\* get_feed: the first send_request, for the url of the query
GetFeed ==
  /\ pc = "request"
  /\ pc' = "sending"
  /\ fetches' = fetches + 1
  /\ UNCHANGED << url, redirect_limit, upstream, response, parseVars, pick >>

\* send_request fails: map_err(Error::from) ends the request
SendFails ==
  /\ pc = "sending"
  /\ pc' = "done"
  /\ response' = Failed("SendRequestError")
  /\ UNCHANGED << url, redirect_limit, fetches, upstream, parseVars, pick >>

\* retrieve_response, first branch: a success status; the body is awaited
RetrieveSuccess ==
  /\ pc = "sending"
  /\ \E status \in Statuses, location \in Locations :
       /\ IsSuccess(status)
       /\ upstream' = Append(upstream, [status |-> status, location |-> location])
  /\ pc' = "body"
  /\ UNCHANGED << url, redirect_limit, fetches, response, parseVars, pick >>

\* The second branch entered with the budget at zero too (>= for >)
RetrieveRedirectAtZero ==
  /\ pc = "sending"
  /\ \E status \in Statuses, location \in Locations :
       LET res == [status |-> status, location |-> location] IN
       /\ ~IsSuccess(status)
       /\ IsRedirection(status) /\ redirect_limit >= 0
       /\ HasLocation(res)
       /\ upstream' = Append(upstream, res)
       /\ url' = location.url
  /\ redirect_limit' = redirect_limit - 1
  /\ fetches' = fetches + 1
  /\ UNCHANGED << pc, response, parseVars, pick >>

\* retrieve_response, second branch with a Location: the next send_request
RetrieveRedirect ==
  /\ pc = "sending"
  /\ \E status \in Statuses, location \in Locations :
       LET res == [status |-> status, location |-> location] IN
       /\ ~IsSuccess(status)
       /\ IsRedirection(status) /\ redirect_limit > 0
       /\ HasLocation(res)
       /\ upstream' = Append(upstream, res)
       /\ url' = location.url
  /\ redirect_limit' = redirect_limit - 1
  /\ fetches' = fetches + 1
  /\ UNCHANGED << pc, response, parseVars, pick >>

\* retrieve_response, second branch without a Location
RetrieveNoLocation ==
  /\ pc = "sending"
  /\ \E status \in Statuses, location \in Locations :
       LET res == [status |-> status, location |-> location] IN
       /\ ~IsSuccess(status)
       /\ IsRedirection(status) /\ redirect_limit > 0
       /\ ~HasLocation(res)
       /\ upstream' = Append(upstream, res)
  /\ pc' = "done"
  /\ response' = Http(500, NoBody)
  /\ UNCHANGED << url, redirect_limit, fetches, parseVars, pick >>

\* The last branch answering 500 for every status
RetrieveOtherAnswers500 ==
  /\ pc = "sending"
  /\ \E status \in Statuses, location \in Locations :
       /\ ~IsSuccess(status)
       /\ ~(IsRedirection(status) /\ redirect_limit > 0)
       /\ upstream' = Append(upstream, [status |-> status, location |-> location])
       /\ response' = Http(500, NoBody)
  /\ pc' = "done"
  /\ UNCHANGED << url, redirect_limit, fetches, parseVars, pick >>

\* retrieve_response, last branch: the status is handed on
RetrieveOther ==
  /\ pc = "sending"
  /\ \E status \in Statuses, location \in Locations :
       /\ ~IsSuccess(status)
       /\ ~(IsRedirection(status) /\ redirect_limit > 0)
       /\ upstream' = Append(upstream, [status |-> status, location |-> location])
       /\ response' = Http(status, NoBody)
  /\ pc' = "done"
  /\ UNCHANGED << url, redirect_limit, fetches, parseVars, pick >>

\* res.body().limit(1_048_576) fails (a payload error, or more than 1MB)
BodyFails ==
  /\ pc = "body"
  /\ pc' = "done"
  /\ response' = Failed("PayloadError")
  /\ UNCHANGED << url, redirect_limit, fetches, upstream, parseVars, pick >>

\* The body arrives, one of bodies, and parse_rss starts on it: its first
\* parse call
BodyReadFrom(bodies) ==
  /\ buf' \in bodies
  /\ pc' = "parsing"
  /\ attempt' = 1
  /\ parser' = NewParser(Dialects[1])
  /\ pos' = 0
  /\ root' = TRUE
  /\ errors' = << >>
  /\ UNCHANGED << url, redirect_limit, fetches, upstream, response, result, pick >>

\* res.body().limit(1_048_576) succeeds
BodyRead ==
  /\ pc = "body"
  /\ BodyReadFrom(Corpus)

\* ------------------------------------------------------------ parse_rss

\* The parser of the failed attempt handed on to the next dialect
FailAttemptKeepsParser(e) ==
  LET errs == Append(errors, e) IN
  /\ errors' = errs
  /\ IF attempt < Len(Dialects)
     THEN /\ attempt' = attempt + 1
          /\ parser' = [parser EXCEPT !.kind = Dialects[attempt + 1]]
          /\ pos' = 0
          /\ root' = TRUE
          /\ UNCHANGED << pc, result, response >>
     ELSE /\ result' = [kind |-> "err", error |-> FromErrors(errs)]
          /\ response' = Http(400, Json(FromErrors(errs)))
          /\ pc' = "done"
          /\ UNCHANGED << attempt, parser, pos, root >>
  /\ UNCHANGED << buf, url, redirect_limit, fetches, upstream, pick >>

\* parse returned Err(e): parse_rss pushes e and makes its next parse call,
\* or after the third returns Err(errors.into()), which retrieve_response
\* turns into 400 Bad Request with the error as JSON.
FailAttempt(e) ==
  LET errs == Append(errors, e) IN
  /\ errors' = errs
  /\ IF attempt < Len(Dialects)
     THEN /\ attempt' = attempt + 1
          /\ parser' = NewParser(Dialects[attempt + 1])
          /\ pos' = 0
          /\ root' = TRUE
          /\ UNCHANGED << pc, result, response >>
     ELSE /\ result' = [kind |-> "err", error |-> FromErrors(errs)]
          /\ response' = Http(400, Json(FromErrors(errs)))
          /\ pc' = "done"
          /\ UNCHANGED << attempt, parser, pos, root >>
  /\ UNCHANGED << buf, url, redirect_limit, fetches, upstream, pick >>

\* The loop of parse goes on to the next event
Advance ==
  /\ pos' = pos + 1
  /\ UNCHANGED << pc, buf, attempt, errors, result, response,
                  url, redirect_limit, fetches, upstream, pick >>

Event == buf.events[pos + 1]
HasEvent(type) == pc = "parsing" /\ pos < Len(buf.events) /\ Event.type = type

UnsupportedEncoding(encoding) == ToUppercase(encoding) # "UTF-8"

\* XmlEvent::StartDocument
OnStartDocument ==
  /\ HasEvent("StartDocument")
  /\ IF UnsupportedEncoding(Event.encoding)
     THEN FailAttempt(ErrorOf(Format(<< Word("["), Word(parser.kind),
                                        Word("] unsupported encoding: "),
                                        Word(Event.encoding) >>)))
     ELSE Advance /\ UNCHANGED << parser, root >>

\* The root check made at every start tag (the root flag never consulted)
OnStartElementChecksEach ==
  /\ HasEvent("StartElement")
  /\ LET p == ParseStartElement(parser, Event.name, Event.attrs) IN
     IF ~VerifyRss(p).ok
     THEN FailAttempt(VerifyRss(p).error)
     ELSE Advance /\ parser' = p /\ root' = FALSE

\* XmlEvent::StartElement
OnStartElement ==
  /\ HasEvent("StartElement")
  /\ LET p == ParseStartElement(parser, Event.name, Event.attrs) IN
     IF root /\ ~VerifyRss(p).ok
     THEN FailAttempt(VerifyRss(p).error)
     ELSE Advance /\ parser' = p /\ root' = FALSE

\* XmlEvent::Characters, XmlEvent::CData
OnText ==
  /\ HasEvent("Characters") \/ HasEvent("CData")
  /\ parser' = ParseContent(parser, Event.data)
  /\ Advance /\ UNCHANGED root

\* XmlEvent::EndElement
OnEndElement ==
  /\ HasEvent("EndElement")
  /\ parser' = ParseEndElement(parser, Event.name)
  /\ Advance /\ UNCHANGED root

\* Every other event
OnOther ==
  /\ HasEvent("Whitespace") \/ HasEvent("EndDocument")
  /\ Advance /\ UNCHANGED << parser, root >>

\* The reader yields Err: elem? returns it through From<XMLReaderError>
OnReaderError ==
  /\ pc = "parsing" /\ pos = Len(buf.events) /\ buf.error.raised
  /\ FailAttempt(FromXMLReaderError(buf.error))

\* The reader is exhausted: parse returns Ok(parser.get_results()), parse_rss
\* returns it and retrieve_response answers 200 OK with the entries as JSON
OnEnd ==
  /\ pc = "parsing" /\ pos = Len(buf.events) /\ ~buf.error.raised
  /\ result' = [kind |-> "ok", entries |-> parser.results]
  /\ response' = Http(200, Json(parser.results))
  /\ pc' = "done"
  /\ UNCHANGED << buf, attempt, parser, pos, root, errors,
                  url, redirect_limit, fetches, upstream, pick >>

NextParse ==
  \/ OnStartDocument
  \/ OnStartElement
  \/ OnText
  \/ OnEndElement
  \/ OnOther
  \/ OnReaderError
  \/ OnEnd

Next ==
  \/ GetFeed
  \/ SendFails
  \/ RetrieveSuccess
  \/ RetrieveRedirect
  \/ RetrieveNoLocation
  \/ RetrieveOther
  \/ BodyFails
  \/ BodyRead
  \/ NextParse

Spec == Init /\ [][Next]_vars

\* The same with every step of the handler taken in the end: a fetch ends
\* within the timeout of send_request in an answer or an error, and the walk
\* of parse is a loop over a finite buffer.
\* Fewer bodies are enough there: a feed of each dialect, one with a root no
\* parser takes, and one cut short.
FewBodies ==
  { Standard(f, "UTF-8", << FullItem(f) >>) : f \in Flavors }
  \cup { Feed("rss2", "UTF-8", Plain("channel"), << >>, << FullItem("rss2") >>),
         Cut(Standard("atom", "UTF-8", << FullItem("atom") >>), 9) }

BodyReadFew ==
  /\ pc = "body"
  /\ BodyReadFrom(FewBodies)

NextFair ==
  \/ GetFeed
  \/ SendFails
  \/ RetrieveSuccess
  \/ RetrieveRedirect
  \/ RetrieveNoLocation
  \/ RetrieveOther
  \/ BodyFails
  \/ BodyReadFew
  \/ NextParse

SpecFair == Init /\ [][NextFair]_vars /\ WF_vars(NextFair)


\* ------------------------------------------------------------ parse_rss alone

\* The sequences of at most n members of S
SeqsUpTo(S, n) == UNION { [1..k -> S] : k \in 0..n }

\* Feeds of up to MaxItems items of which one has any children of Kinds, at
\* most MaxKids of them, and the others every field once
FocusFeeds(flavor, Kinds) ==
  { Standard(flavor, "UTF-8", << >>) }
  \cup { Standard(flavor, "UTF-8",
                  [i \in 1..m |-> IF i = f THEN kids ELSE FullItem(flavor)]) :
         m \in 1..MaxItems, f \in 1..MaxItems, kids \in SeqsUpTo(Kinds, MaxKids) }

RssKinds == { "title", "link", "description", "encoded", "date", "deep" }
AtomKinds == LinkKinds \cup { "title" }
AtomDateKinds == { "published", "updated" }
AtomTextKinds == { "content", "media", "mediaBare" }
RssSplitKinds == { "titleChunks", "linkChunks", "dateChunks", "descriptionSplit" }
AtomSplitKinds == { "titleChunks", "publishedChunks" }

ParseDocs ==
  Corpus
  \cup FocusFeeds("rss2", RssKinds)
  \cup FocusFeeds("rdf", RssKinds)
  \cup FocusFeeds("atom", AtomKinds)
  \cup FocusFeeds("atom", AtomDateKinds)
  \cup FocusFeeds("atom", AtomTextKinds)
  \cup FocusFeeds("rss2", RssSplitKinds)
  \cup FocusFeeds("rdf", RssSplitKinds)
  \cup FocusFeeds("atom", AtomSplitKinds)

\* parse_rss called on a body, as BodyRead leaves it
InitParse ==
  /\ pc = "parsing"
  /\ url = QueryUrl
  /\ redirect_limit = RedirectLimit
  /\ fetches = 1
  /\ upstream = << [status |-> 200, location |-> NoLocation] >>
  /\ response = NoResponse
  /\ buf \in ParseDocs
  /\ attempt = 1
  /\ parser = NewParser(Dialects[1])
  /\ pos = 0
  /\ root = TRUE
  /\ errors = << >>
  /\ result = NoResult
  /\ pick = NoPick

SpecParse == InitParse /\ [][NextParse]_vars

\* ------------------------------------------------------------ pick_texts alone

MaxNodes == 2

\* Text nodes: runs of a one-byte and of a three-byte character around the
\* limit, mixed ones, and ones with white space at an end
NodeTexts ==
  { Rep(c, n) : c \in { "a", Char3 }, n \in { 1, 200, 499, 500, 501 } }
  \cup { Concat(Rep("a", 1), Rep(Char2, 250)),
         Concat(Rep(Char3, 100), Rep("a", 450)),
         Concat(Rep(" ", 2), Rep("a", 499)),
         Concat(Rep("a", 498), Rep(" ", 3)) }

Tag == Lit(<< "<", "b", "r", ">" >>)

\* The markup whose text nodes are nodes: a tag before each node
RECURSIVE Markup(_)
Markup(nodes) ==
  IF nodes = << >> THEN << >>
  ELSE Concat(Concat(Tag, Head(nodes)), Markup(Tail(nodes)))

Descriptions == { Markup(nodes) : nodes \in SeqsUpTo(NodeTexts, MaxNodes) }

InitPick ==
  /\ pc = "picking"
  /\ url = QueryUrl
  /\ redirect_limit = RedirectLimit
  /\ fetches = 0
  /\ upstream = << >>
  /\ response = NoResponse
  /\ buf = NoDoc
  /\ attempt = 0
  /\ parser = NewParser(V2)
  /\ pos = 0
  /\ root = TRUE
  /\ errors = << >>
  /\ result = NoResult
  /\ \E data \in Descriptions : pick = [NoPick EXCEPT !.pc = "new", !.data = data]

\* pick_texts: the document is parsed and texts starts empty
PickStart ==
  /\ pick.pc = "new"
  /\ pick' = [pick EXCEPT !.pc = "loop", !.nodes = HtmlTexts(pick.data),
                          !.texts = << >>]
  /\ UNCHANGED << fetchVars, response, parseVars >>

\* One iteration of the loop over the text nodes
PickIterate ==
  /\ pick.pc = "loop"
  /\ pick.nodes # << >>
  /\ ~PickBreak(pick.texts)
  /\ pick' = [pick EXCEPT !.texts = PickStep(pick.texts, Head(pick.nodes)),
                          !.nodes = Tail(pick.nodes)]
  /\ UNCHANGED << fetchVars, response, parseVars >>

\* The loop ends, by its break or with the last node; Rss::new trims texts
PickReturn ==
  /\ pick.pc = "loop"
  /\ pick.nodes = << >> \/ PickBreak(pick.texts)
  /\ pick' = [pick EXCEPT !.pc = "done", !.description = Trim(pick.texts)]
  /\ UNCHANGED << fetchVars, response, parseVars >>

NextPick == PickStart \/ PickIterate \/ PickReturn

SpecPick == InitPick /\ [][NextPick]_vars


\* ------------------------------------------------------------ properties

\* The places of the children of the given kinds in an item's outline
Places(kinds, K) == { j \in 1..Len(kinds) : kinds[j] \in K }
Last(S) == CHOOSE j \in S : \A k \in S : k <= j
First(S) == CHOOSE j \in S : \A k \in S : j <= k

\* parse_rss has returned the entries of a feed written from an outline
Parsed(flavor) ==
  /\ pc = "done"
  /\ result.kind = "ok"
  /\ buf.shape.flavor = flavor
  /\ Len(result.entries) = Len(buf.shape.items)

\* The responses received so far are all redirects that name a Location
AllRedirects ==
  \A i \in 1..Len(upstream) :
    IsRedirection(upstream[i].status) /\ HasLocation(upstream[i])

\* C1: when upstream answers four times in a row with a redirect that has a
\* Location, the request is answered 500 Internal Server Error with an empty
\* body.
C1_FourRedirectsAnswer500 ==
  (pc = "done" /\ Len(upstream) = 4 /\ AllRedirects)
    => response = Http(500, NoBody)

\* C2: a redirect without a Location header is answered 500 Internal Server
\* Error with an empty body, and no fetch follows it, whatever is left of the
\* redirect budget.
C2_NoLocationAnswers500 ==
  (/\ pc = "done"
   /\ upstream # << >>
   /\ IsRedirection(upstream[Len(upstream)].status)
   /\ ~upstream[Len(upstream)].location.present)
    => response = Http(500, NoBody) /\ fetches = Len(upstream)

\* An entry of an Atom feed whose links are one atom:link without rel and one
\* with rel="self", in either order
SelfAndNoRel(kinds) ==
  /\ Cardinality(Places(kinds, { "linkNoRel" })) = 1
  /\ Cardinality(Places(kinds, { "linkSelf" })) = 1
  /\ Places(kinds, LinkKinds) = Places(kinds, { "linkNoRel", "linkSelf" })

TakenLinks == { "linkNoRel", "linkSelf", "linkAlternate" }

DialectOf(flavor) ==
  CASE flavor = "rss2" -> "RSS V2" [] flavor = "atom" -> "Atom" [] flavor = "rdf" -> "RSS V1"

\* An unbroken feed with the root its dialect asks for and UTF-8 declared
Sound ==
  /\ buf.shape.flavor \in Flavors
  /\ buf.shape.root = RootName(buf.shape.flavor)
  /\ buf.shape.attrs = RootAttrs(buf.shape.flavor)
  /\ buf.shape.encoding \in { "UTF-8", "utf-8" }
  /\ ~buf.error.raised

\* C4: parse_rss tries RSS 2.0, then Atom, then RSS 1.0 on the same buffer,
\* each after the failure of the one before; the entries of the first parser
\* that verifies the root and walks the whole document are returned at once
\* (and answered 200 OK), so a sound feed is read by the parser of its dialect.
C4_FixedOrderFirstSuccess ==
  /\ (pc = "parsing" \/ (pc = "done" /\ result.kind # "none")) =>
       /\ attempt \in 1..3
       /\ parser.kind = << "RSS V2", "Atom", "RSS V1" >>[attempt]
       /\ Len(errors) = IF result.kind = "err" THEN 3 ELSE attempt - 1
  /\ (pc = "done" /\ result.kind = "ok") =>
       /\ pos = Len(buf.events)
       /\ ~root
       /\ result.entries = parser.results
       /\ response = Http(200, Json(result.entries))
  /\ (pc = "done" /\ result.kind # "none" /\ Sound) =>
       /\ result.kind = "ok"
       /\ parser.kind = DialectOf(buf.shape.flavor)

C4_Witness ==
  /\ pc = "done"
  /\ result.kind = "ok"
  /\ attempt = 3
  /\ Len(errors) = 2
  /\ fetches > 1

\* C5: when all three attempts fail, parse_rss returns one error with exactly
\* three messages, one per dialect in the order tried and no two alike, and
\* the request is answered 400 Bad Request with them.
C5_ThreeDistinctMessages ==
  (pc = "done" /\ result.kind = "err") =>
    LET m == result.error.messages IN
    /\ Len(m) = 3
    /\ m[1] # m[2] /\ m[1] # m[3] /\ m[2] # m[3]
    /\ response = Http(400, Json(result.error))

\* C6: every message a dialect attempt fails with carries the display name
\* of that dialect, whatever the kind of the failure.
C6_MessagesNameTheirDialect ==
  \A k \in 1..Len(errors) :
    \A i \in 1..Len(errors[k].messages) :
      Count(errors[k].messages[i], << "RSS V2", "Atom", "RSS V1" >>[k]) > 0

\* The text the k-th entry should show for a field: that of the item's last
\* child of the kind, and of a child in several pieces its last piece
ExpectLink(k) ==
  LET S == Places(buf.shape.items[k], { "link", "linkChunks" }) IN
  IF S = { } THEN << >>
  ELSE Lit(<< " ", "l", Digits[k], Digits[Last(S)], "\n" >>)

ExpectDate(k) ==
  LET S == Places(buf.shape.items[k], { "date", "dateChunks" }) IN
  IF S = { } THEN [some |-> FALSE]
  ELSE [some |-> TRUE,
        value |-> Lit(<< "\n", "p", Digits[k], Digits[Last(S)], " " >>)]

ExpectTitle(k) ==
  LET S == Places(buf.shape.items[k], { "title", "titleChunks" }) IN
  IF S = { } THEN << >> ELSE Lit(<< "t", Digits[k], Digits[Last(S)] >>)

\* One entry per item, in document order, link and pubDate as written
EntriesInOrder ==
  /\ result.kind = "ok"
  /\ Len(result.entries) = Len(buf.shape.items)
  /\ \A k \in 1..Len(buf.shape.items) :
       /\ result.entries[k].link = ExpectLink(k)
       /\ result.entries[k].pub_date = ExpectDate(k)
       /\ result.entries[k].title = ExpectTitle(k)

\* A well-formed document with the root <rss version="2.0">
Rss20 ==
  /\ buf.shape.flavor = "rss2"
  /\ buf.shape.root = Plain("rss")
  /\ buf.shape.attrs = << Attr(Plain("version"), Word("2.0")) >>
  /\ ~buf.error.raised

\* C7, as claimed: for every well-formed RSS 2.0 document with the root
\* <rss version="2.0"> and N items, parse_rss succeeds with N entries, the
\* k-th from the k-th item, link and pubDate text untrimmed.
C7_EveryRss20Parses ==
  (pc = "done" /\ Rss20) => EntriesInOrder

\* C7, amended: the same for the documents that declare UTF-8 (in any letter
\* case) or no encoding; a document that declares another encoding is
\* refused by all three parsers.
C7_Utf8Rss20Parses ==
  (pc = "done" /\ Rss20) =>
    IF buf.shape.encoding \in { "UTF-8", "utf-8" }
    THEN EntriesInOrder
    ELSE result.kind = "err"

C7_Witness ==
  /\ pc = "done"
  /\ Rss20
  /\ buf.shape.encoding = "UTF-8"
  /\ Len(buf.shape.items) = 2
  /\ buf.shape.items[2] = << "link", "date" >>
  /\ result.kind = "ok"
  /\ result.entries[2].link = Lit(<< " ", "l", "2", "1", "\n" >>)

\* The description an entry shows when it comes from child j of item i: the
\* text of the child without its markup and outer white space
DescriptionText(i, j) == Lit(<< "d", Digits[i], Digits[j] >>)
EncodedText(i, j) == Lit(<< "e", Digits[i], Digits[j] >>)

\* C8: in the RSS 2.0 and RSS 1.0 parsers content:encoded gives an item's
\* description only when no description came before it in the item, and a
\* description that comes after content:encoded is the one shown.
C8_EncodedOnlyFillsIn ==
  (Parsed("rss2") \/ Parsed("rdf")) =>
    \A i \in 1..Len(buf.shape.items) :
      LET kinds == buf.shape.items[i]
          D == Places(kinds, { "description" })
          E == Places(kinds, { "encoded" })
          shown == result.entries[i].description
      IN /\ \A j \in E : shown = EncodedText(i, j) => \A d \in D : d > j
         /\ (\E j \in E, d \in D : d > j) => shown = DescriptionText(i, Last(D))
         /\ (D = { } /\ E # { }) => shown = EncodedText(i, First(E))

C8_Witness ==
  /\ Parsed("rdf")
  /\ \E i \in 1..Len(buf.shape.items) :
       /\ buf.shape.items[i] = << "encoded", "description" >>
       /\ result.entries[i].description = DescriptionText(i, 2)

\* The text of a description without its markup
Stripped(data) == Format(HtmlTexts(data))

\* C9: a description whose text without markup has more than 500 characters
\* comes out with at most 503 characters: a whole-character prefix of the
\* text of at most 500 characters, then "..." once, at the end, and nothing
\* of what follows the cut.
C9_LongIsCutAndMarked ==
  (pick.pc = "done" /\ CharLen(Stripped(pick.data)) > 500) =>
    /\ CharLen(pick.description) <= 503
    /\ EndsWithRun(pick.description, ".", 3)
    /\ Count(pick.description, ".") = 3
    /\ Count(pick.description, Broken) = 0
    /\ \E k \in 0..500 :
         pick.description = Trim(Concat(TakeChars(Stripped(pick.data), k), Rep(".", 3)))

C9_Witness ==
  /\ pick.pc = "done"
  /\ CharLen(Stripped(pick.data)) > 500
  /\ Count(pick.data, Char3) > 0
  /\ Len(HtmlTexts(pick.data)) = 2
  /\ CharLen(pick.description) = 503

\* C10: a description whose text without markup has at most 500 characters,
\* of one byte or of several, in one text node or in several, comes out as
\* that text trimmed, without a "..." marker.
C10_ShortIsUnchanged ==
  (pick.pc = "done" /\ CharLen(Stripped(pick.data)) <= 500) =>
    pick.description = Trim(Stripped(pick.data))

\* ------------------------------------------------------------ redirects, continued

\* The answers before the last were all redirects with a usable Location
RedirectsThenLast ==
  /\ upstream # << >>
  /\ \A k \in 1..(Len(upstream) - 1) :
       /\ upstream[k].status \in 300..399
       /\ upstream[k].location.present /\ upstream[k].location.text

\* C11: a chain of 0, 1, 2 or 3 redirects with Location that ends in a 2xx
\* answer succeeds: while the redirects last a further fetch is made, the body
\* of the 2xx answer is handed to parse_rss, and the answer is the outcome of
\* the parse (200 with the entries, 400 with the errors), never a redirect
\* error; only a failure to send or to read the body answers otherwise.
C11_ThreeRedirectsThenSuccess ==
  /\ (AllRedirects /\ Len(upstream) \in 1..3) =>
       /\ fetches = Len(upstream) + 1
       /\ pc = "sending" \/ (pc = "done" /\ response = Failed("SendRequestError"))
  /\ (/\ RedirectsThenLast
      /\ Len(upstream) <= 4
      /\ upstream[Len(upstream)].status \in 200..299) =>
       /\ fetches = Len(upstream)
       /\ pc \in { "body", "parsing", "done" }
       /\ pc = "parsing" => buf # NoDoc /\ response = NoResponse
       /\ pc = "done" =>
            \/ response = Failed("PayloadError") /\ result.kind = "none"
            \/ /\ buf # NoDoc
               /\ result.kind = "ok"
               /\ response = Http(200, Json(result.entries))
            \/ /\ buf # NoDoc
               /\ result.kind = "err"
               /\ response = Http(400, Json(result.error))

C11_Witness ==
  /\ pc = "done"
  /\ Len(upstream) = 4
  /\ RedirectsThenLast
  /\ upstream[4].status = 200
  /\ redirect_limit = 0
  /\ result.kind = "ok"
  /\ result.entries # << >>
  /\ response = Http(200, Json(result.entries))

\* C12: whatever upstream answers, an endless chain of redirects included,
\* one request makes at most 4 fetches (the first and one for each of at most
\* 3 redirects followed), the redirect budget never falls below 0, and the
\* request reaches a final response.
C12_AtMostFourFetchesThenAnswer ==
  /\ [](/\ fetches <= 4
        /\ redirect_limit >= 0
        /\ pc # "request" => fetches + redirect_limit = 4)
  /\ <>(pc = "done" /\ response # NoResponse)

C12_Witness ==
  /\ pc = "done"
  /\ Len(upstream) = 4
  /\ AllRedirects
  /\ fetches = 4
  /\ redirect_limit = 0
  /\ response # NoResponse

\* C13: an upstream answer whose status is neither 2xx nor 3xx ends the
\* request with that status and an empty body; nothing is read or parsed and
\* no fetch follows, whatever is left of the redirect budget.
C13_OtherStatusEchoed ==
  (upstream # << >> /\ upstream[Len(upstream)].status \notin 200..399) =>
    /\ pc = "done"
    /\ response = [status |-> upstream[Len(upstream)].status,
                   body |-> [kind |-> "empty"], error |-> "none"]
    /\ buf = NoDoc /\ attempt = 0 /\ result = NoResult
    /\ fetches = Len(upstream)

C13_Witness ==
  /\ pc = "done"
  /\ Len(upstream) = 2
  /\ upstream[1].status = 301
  /\ upstream[2].status = 404
  /\ redirect_limit = 2
  /\ response.status = 404
  /\ response.body.kind = "empty"

\* ------------------------------------------------------------ the walk

\* The start tags among the events the walk has taken so far
StartsTaken == { k \in 1..pos : buf.events[k].type = "StartElement" }

\* The k-th dialect accepts the root of the document at hand
Accepts(k) ==
  CASE k = 1 -> /\ buf.shape.root.local = "rss"
                /\ \E a \in 1..Len(buf.shape.attrs) :
                     /\ buf.shape.attrs[a].name = [ns |-> NoNs, local |-> "version"]
                     /\ buf.shape.attrs[a].value = Word("2.0")
    [] k = 2 -> buf.shape.root.local = "feed" /\ buf.shape.root.ns = ATOM_NS
    [] k = 3 -> /\ buf.shape.root.local \in { "RDF", "rdf" }
                /\ buf.shape.root.ns = RDF_SYNTAX_NS

\* What the messages of a refused root hold
RootComplaints ==
  { "] invalid root element: ", "] invalid root namespace: ",
    "] undefined RSS version", "] unsupported RSS version: " }

RootRefused(error) ==
  \E i \in 1..Len(error.messages), c \in RootComplaints :
    Count(error.messages[i], c) > 0

\* C14: in each dialect attempt the root check is made once, right after the
\* first start tag and before the parser is given any text or end tag: until
\* then the parser is as constructed, the walk goes past the first start tag
\* only when the dialect accepts the root, no later start tag is checked (an
\* attempt whose dialect accepts the root never fails with a complaint about
\* the root), and a refusal ends the attempt there, with no entry.
C14_RootCheckedOnceAtFirstStart ==
  /\ pc = "parsing" =>
       /\ root = (StartsTaken = { })
       /\ root => parser = [NewParser(V2) EXCEPT
                              !.kind = << "RSS V2", "Atom", "RSS V1" >>[attempt]]
       /\ ~root => Accepts(attempt)
  /\ \A k \in 1..Len(errors) :
       /\ RootRefused(errors[k]) => ~Accepts(k)
       /\ (~Accepts(k) /\ ~buf.error.raised /\ buf.shape.encoding \in { "UTF-8", "utf-8" })
            => RootRefused(errors[k])
  /\ (pc = "done" /\ result.kind = "ok") => Accepts(attempt)

\* The Atom attempt has just refused the root of an RSS 1.0 feed, after the
\* RSS 2.0 attempt did, and the RSS 1.0 attempt starts
C14_Witness ==
  /\ pc = "parsing"
  /\ buf.shape.flavor = "rdf"
  /\ Accepts(3)
  /\ attempt = 3 /\ pos = 0 /\ root
  /\ Len(errors) = 2
  /\ RootRefused(errors[1]) /\ RootRefused(errors[2])

\* ------------------------------------------------------------ Atom entries

\* C15: in the Atom parser the pub_date of an entry with a published child is
\* the published text, whether an updated child comes before or after it;
\* updated gives the pub_date only of an entry without published (the first
\* updated then), and an entry with neither has no pub_date.
C15_PublishedBeatsUpdated ==
  Parsed("atom") =>
    \A i \in 1..Len(buf.shape.items) :
      LET kinds == buf.shape.items[i]
          P == Places(kinds, { "published", "publishedChunks" })
          U == Places(kinds, { "updated" })
      IN result.entries[i].pub_date =
           IF P # { }
           THEN [some |-> TRUE, value |-> Lit(<< "p", Digits[i], Digits[Last(P)] >>)]
           ELSE IF U # { }
           THEN [some |-> TRUE, value |-> Lit(<< "u", Digits[i], Digits[First(U)] >>)]
           ELSE [some |-> FALSE]

C15_Witness ==
  /\ Parsed("atom")
  /\ Len(buf.shape.items) = 2
  /\ buf.shape.items[1] = << "updated", "published" >>
  /\ result.entries[1].pub_date = [some |-> TRUE, value |-> Lit(<< "p", "1", "2" >>)]
  /\ result.entries[2].pub_date = [some |-> TRUE, value |-> Lit(<< "p", "2", "4" >>)]

\* C16: in the Atom parser the text of a media:description becomes the
\* description only where it lies in a media:group that lies in the entry,
\* and only while the entry has no description yet: one directly in the
\* entry is ignored, the first one in a group is kept, and the text of an
\* atom:content of the entry is the description whether the content comes
\* before or after the media:description.
C16_MediaDescriptionOnlyFillsIn ==
  Parsed("atom") =>
    \A i \in 1..Len(buf.shape.items) :
      LET kinds == buf.shape.items[i]
          C == Places(kinds, { "content" })
          M == Places(kinds, { "media" })
      IN result.entries[i].description =
           IF C # { } THEN Lit(<< "c", Digits[i], Digits[Last(C)] >>)
           ELSE IF M # { } THEN Lit(<< "m", Digits[i], Digits[First(M)] >>)
           ELSE << >>

C16_Witness ==
  /\ Parsed("atom")
  /\ Len(buf.shape.items) = 2
  /\ buf.shape.items[1] = << "media", "content" >>
  /\ result.entries[1].description = Lit(<< "c", "1", "2" >>)

\* ------------------------------------------------------------ items

\* The walk is at the end tag of an item of the running dialect
AtItemClose ==
  /\ pc = "parsing" /\ pos < Len(buf.events)
  /\ buf.events[pos + 1].type = "EndElement"
  /\ LET name == buf.events[pos + 1].name IN
     CASE parser.kind = "RSS V2" -> name = [ns |-> NoNs, local |-> "item"]
       [] parser.kind = "Atom" -> name = [ns |-> ATOM_NS, local |-> "entry"]
       [] parser.kind = "RSS V1" -> name = [ns |-> RDF_NS, local |-> "item"]

\* The kinds of child that fill each field of an entry
TitleKinds == { "title", "titleChunks" }
LinkFillers == { "link", "linkChunks", "linkNoRel", "linkSelf", "linkAlternate" }
DescriptionKinds == { "description", "descriptionSplit", "encoded", "content", "media" }
DateKinds == { "date", "dateChunks", "published", "publishedChunks", "updated" }

\* A step of the walk within one attempt
WalkStep == pc = "parsing" /\ pc' = "parsing" /\ attempt' = attempt /\ pos' = pos + 1

\* C17: in every parser the close of an item appends one entry made of the
\* fields as they stand (title trimmed, description as text) and then clears
\* title, description and link and drops pub_date; no other event appends, so
\* an item without the children of a field shows that field empty and never
\* the value of the item before it (the link of the first Atom entry aside,
\* which has no item before it).
C17_ItemCloseEmitsAndResets ==
  /\ [][WalkStep =>
          IF AtItemClose
          THEN /\ parser'.results =
                    Append(parser.results,
                           [title |-> Trim(parser.title),
                            description |-> Trim(PickTexts(parser.description)),
                            link |-> parser.link,
                            pub_date |-> parser.pub_date])
               /\ parser'.title = << >>
               /\ parser'.description = << >>
               /\ parser'.link = << >>
               /\ parser'.pub_date = [some |-> FALSE]
          ELSE parser'.results = parser.results]_vars
  /\ [](\A f \in Flavors : Parsed(f) =>
          \A i \in 1..Len(buf.shape.items) :
            LET kinds == buf.shape.items[i]
                e == result.entries[i]
            IN /\ Places(kinds, TitleKinds) = { } => e.title = << >>
               /\ Places(kinds, DescriptionKinds) = { } => e.description = << >>
               /\ Places(kinds, DateKinds) = { } => e.pub_date = [some |-> FALSE]
               /\ (Places(kinds, LinkFillers) = { } /\ ~(f = "atom" /\ i = 1))
                    => e.link = << >>)

\* The second item of an RSS 2.0 feed has a title only; the first has every
\* field
C17_Witness ==
  /\ Parsed("rss2")
  /\ buf.shape.items = << FullItem("rss2"), << "title" >> >>
  /\ result.entries[1].link # << >>
  /\ result.entries[1].description # << >>
  /\ result.entries[1].pub_date.some
  /\ result.entries[2] = [title |-> Lit(<< "t", "2", "1" >>), description |-> << >>,
                          link |-> << >>, pub_date |-> [some |-> FALSE]]

\* The walk of the RSS 2.0 or the RSS 1.0 parser is at a text that does not
\* lie directly in a child of an item: fewer than two elements are open, or
\* the one above the innermost is no item
AtTextOutsideItem ==
  /\ pc = "parsing" /\ pos < Len(buf.events)
  /\ buf.events[pos + 1].type \in { "Characters", "CData" }
  /\ parser.kind \in { "RSS V2", "RSS V1" }
  /\ \/ Len(parser.elements) < 2
     \/ parser.elements[2].name #
          (IF parser.kind = "RSS V2" THEN [ns |-> NoNs, local |-> "item"]
           ELSE [ns |-> RDF_NS, local |-> "item"])

\* C18: in the RSS 2.0 and RSS 1.0 parsers a text met with fewer than two
\* elements open, or with a parent of its element that is no item, changes
\* neither title, description, link, pub_date nor the results: the texts of
\* the root and of the channel's title, and a text nested below a child of
\* the item, leave no trace in the entries.
C18_TextOutsideItemIgnored ==
  /\ [][(WalkStep /\ AtTextOutsideItem) =>
          /\ parser'.title = parser.title
          /\ parser'.description = parser.description
          /\ parser'.link = parser.link
          /\ parser'.pub_date = parser.pub_date
          /\ parser'.results = parser.results]_vars
  /\ [](\A f \in { "rss2", "rdf" } : Parsed(f) =>
          \A i \in 1..Len(buf.shape.items) :
            (\A j \in 1..Len(buf.shape.items[i]) : buf.shape.items[i][j] = "deep")
              => result.entries[i] = [title |-> << >>, description |-> << >>,
                                      link |-> << >>, pub_date |-> [some |-> FALSE]])

\* The RSS 1.0 parser has taken the text of a link that lies in a title of the
\* second item, and holds no link
C18_Witness ==
  /\ pc = "parsing" /\ pos > 0
  /\ parser.kind = "RSS V1"
  /\ buf.events[pos].type = "Characters"
  /\ Len(parser.elements) = 4
  /\ parser.elements[1].name = [ns |-> RDF_NS, local |-> "link"]
  /\ parser.elements[2].name = [ns |-> RDF_NS, local |-> "title"]
  /\ parser.elements[3].name = [ns |-> RDF_NS, local |-> "item"]
  /\ Len(parser.results) = 1
  /\ parser.link = << >> /\ parser.title = << >>

\* ------------------------------------------------------------ failed attempts

\* A parser as constructed for the k-th dialect
Fresh(k) ==
  [kind |-> << "RSS V2", "Atom", "RSS V1" >>[k], results |-> << >>,
   elements |-> << >>, title |-> << >>, link |-> << >>, description |-> << >>,
   pub_date |-> [some |-> FALSE]]

\* The end tags of items among the first n events of the document
ItemsClosed(n) ==
  { k \in 1..n : /\ buf.events[k].type = "EndElement"
                 /\ buf.events[k].name.local \in { "item", "entry" } }

\* C19: an attempt that fails, by the encoding, the root or a broken
\* document, even after items were closed, leaves nothing behind: the next
\* dialect starts with a parser as constructed at the first event of the same
\* document, and what parse_rss returns is either every entry of the one
\* dialect that walked the whole document or the error of all three, never
\* entries of a broken walk.
C19_FailedAttemptLeavesNothing ==
  /\ [][(pc = "parsing" /\ attempt' # attempt) =>
          /\ attempt' = attempt + 1
          /\ parser' = Fresh(attempt + 1)
          /\ pos' = 0 /\ root'
          /\ buf' = buf
          /\ result' = NoResult /\ response' = NoResponse]_vars
  /\ [](/\ (pc = "done" /\ result.kind = "ok") =>
             /\ ~buf.error.raised
             /\ pos = Len(buf.events)
             /\ Len(result.entries) = Cardinality(ItemsClosed(Len(buf.events)))
             /\ result.entries = parser.results
             /\ response = Http(200, Json(result.entries))
        /\ (pc = "done" /\ result.kind = "err") =>
             /\ Len(errors) = 3
             /\ response = Http(400, Json(result.error))
        /\ (pc = "done" /\ buf.error.raised) => result.kind = "err")

\* The RSS 2.0 attempt closed an item and then met the break of the document;
\* the Atom attempt starts
C19_Witness ==
  /\ pc = "parsing"
  /\ buf.shape.flavor = "rss2"
  /\ buf.error.raised
  /\ ItemsClosed(Len(buf.events)) # { }
  /\ attempt = 2 /\ pos = 0 /\ root
  /\ Len(errors) = 1
  /\ parser.results = << >>

\* C20: in the Atom parser the link of an entry is the href of an atom:link
\* opened inside that entry, the last one whose href is taken, or empty when
\* the entry has none; the href of a link opened outside the entries, like the
\* feed's own link before the first entry, is never the link of an entry.
C20_EntryLinkFromItsOwnLinks ==
  Parsed("atom") =>
    \A i \in 1..Len(buf.shape.items) :
      LET S == Places(buf.shape.items[i], { "linkNoRel", "linkSelf", "linkAlternate" })
      IN /\ result.entries[i].link =
              IF S = { } THEN << >> ELSE Lit(<< "h", Digits[i], Digits[Last(S)] >>)
         /\ result.entries[i].link # Lit(<< "h", "9", "1" >>)

\* ------------------------------------------------------------ the element stack

\* The elements open after the first n events of the document, innermost
\* first, read off the events
RECURSIVE OpenAfter(_)
OpenAfter(n) ==
  IF n = 0 THEN << >>
  ELSE LET e == buf.events[n]
           open == OpenAfter(n - 1)
       IN CASE e.type = "StartElement" -> << [name |-> e.name, attrs |-> e.attrs] >> \o open
            [] e.type = "EndElement" -> SubSeq(open, 2, Len(open))
            [] OTHER -> open

TagsTaken(type) == Cardinality({ k \in 1..pos : buf.events[k].type = type })

\* C21: in every parser, after each event of the walk the element stack is
\* the sequence of the open elements, innermost first, its depth the start
\* tags taken less the end tags taken; an end tag finds its own element on top
\* of the stack, never an empty stack; the root check, made after the first
\* start tag is pushed, reads the root on a stack of one element; and the
\* stack is empty when the walk ends with the entries.
C21_StackHoldsOpenElements ==
  /\ [](/\ pc = "parsing" =>
             /\ parser.elements = OpenAfter(pos)
             /\ Len(parser.elements) = TagsTaken("StartElement") - TagsTaken("EndElement")
             /\ (pos < Len(buf.events) /\ buf.events[pos + 1].type = "EndElement") =>
                  /\ parser.elements # << >>
                  /\ parser.elements[1].name = buf.events[pos + 1].name
        /\ (pc = "done" /\ result.kind = "ok") => parser.elements = << >>)
  /\ [][(WalkStep /\ root /\ ~root') =>
          /\ Len(parser'.elements) = 1
          /\ parser'.elements[1].name = buf.shape.root
          /\ parser'.elements[1].attrs = buf.shape.attrs]_vars

\* The Atom parser is at the text of a media:description: four elements are
\* open, the feed outermost
C21_Witness ==
  /\ pc = "parsing" /\ pos > 0
  /\ parser.kind = "Atom"
  /\ buf.events[pos].type = "Characters"
  /\ Len(parser.elements) = 4
  /\ parser.elements[1].name = [ns |-> MEDIA_NS, local |-> "description"]
  /\ parser.elements[2].name = [ns |-> MEDIA_NS, local |-> "group"]
  /\ parser.elements[3].name = [ns |-> ATOM_NS, local |-> "entry"]
  /\ parser.elements[4].name = [ns |-> ATOM_NS, local |-> "feed"]

\* ------------------------------------------------------------ text in pieces

\* C22: when the text of a title, link, description or pubDate / published
\* element of an item comes in several text events, character data and CDATA
\* sections or text around a child element, each event replaces what the
\* field held: the entry shows the last piece alone (title trimmed,
\* description as text), not the pieces joined.
C22_LastPieceReplaces ==
  \A f \in Flavors : Parsed(f) =>
    \A i \in 1..Len(buf.shape.items) :
      LET kinds == buf.shape.items[i]
          e == result.entries[i]
          last(K) == kinds[Last(Places(kinds, K))]
          at(K) == Digits[Last(Places(kinds, K))]
          has(K) == Places(kinds, K) # { }
      IN /\ (has({ "title", "titleChunks" }) /\ last({ "title", "titleChunks" }) = "titleChunks")
              => e.title = Lit(<< "t", Digits[i], at({ "title", "titleChunks" }) >>)
         /\ (has({ "link", "linkChunks" }) /\ last({ "link", "linkChunks" }) = "linkChunks")
              => e.link = Lit(<< " ", "l", Digits[i], at({ "link", "linkChunks" }), "\n" >>)
         /\ (has({ "description", "descriptionSplit" })
             /\ last({ "description", "descriptionSplit" }) = "descriptionSplit")
              => e.description =
                   Lit(<< "d", Digits[i], at({ "description", "descriptionSplit" }) >>)
         /\ (has({ "date", "dateChunks" }) /\ last({ "date", "dateChunks" }) = "dateChunks")
              => e.pub_date = [some |-> TRUE,
                               value |-> Lit(<< "\n", "p", Digits[i],
                                                at({ "date", "dateChunks" }), " " >>)]
         /\ (has({ "published", "publishedChunks" })
             /\ last({ "published", "publishedChunks" }) = "publishedChunks")
              => e.pub_date = [some |-> TRUE,
                               value |-> Lit(<< "p", Digits[i],
                                                at({ "published", "publishedChunks" }) >>)]

\* An RSS 1.0 item whose title comes in two pieces and whose description
\* holds a child element: the entry shows the last piece of each
C22_Witness ==
  /\ Parsed("rdf")
  /\ buf.shape.items = << << "titleChunks", "descriptionSplit" >> >>
  /\ result.entries[1].title = Lit(<< "t", "1", "1" >>)
  /\ result.entries[1].description = Lit(<< "d", "1", "2" >>)

====
